---- MODULE Spec2Model ----
(***************************************************************************)
(* Model of cthash's SHA-2 engine (include/cthash/hasher.hpp): the         *)
(* big-endian codec, the message scheduler, the compression rounds, the    *)
(* buffer accumulator, the finalizer and the result writer of              *)
(* internal_hasher<Config>, driven through hasher<Config>::update/final.   *)
(*                                                                         *)
(* A state word (state_item_t / staging_item_t, uint32_t for the SHA-256   *)
(* family) is the pair <<hi, lo>> of its two 16-bit halves, value          *)
(* hi * 2^16 + lo, so that all arithmetic keeps the 32-bit width.          *)
(* A byte (std::byte) is a number in 0..255.  C++ arrays indexed from 0    *)
(* are sequences indexed from 1.  The loops of build_staging and rounds    *)
(* run their bodies for i = lo .. hi-1 in order; the range is split in     *)
(* halves, and the left half is evaluated (by the test on Len(left), which *)
(* never holds) before the right half starts, only to keep the evaluation  *)
(* stack of the model checker shallow.                                     *)
(***************************************************************************)
EXTENDS Integers, Sequences, FiniteSets, TLC

\* ------------------------------------------------------------------ bounds
\* largest number of input bytes given to one hasher
MaxTotal == 131
\* largest number of update calls on one hasher
MaxUpdates == 2
\* largest number of calls made on a hasher after its first final
MaxLate == 1

\* lengths of the byte sequences passed to update: empty, "abc", the lengths
\* around the padding threshold (3 + 52 = 55, 56), one block, two blocks
ChunkLens == {0, 3, 52, 56, 64, 128}
\* first byte of an input; byte i of an input is (seed + i) mod 256
ByteSeeds == {97, 255}
\* contents a never-written block buffer or destination byte may hold
GarbageBytes == {0, 165}

\* ------------------------------------------------- unsigned word arithmetic
Half == 65536

Pow2(n) == 2 ^ n

RECURSIVE BitXor(_, _)
BitXor(a, b) ==
  IF a = 0 THEN b
  ELSE IF b = 0 THEN a
  ELSE ((a + b) % 2) + 2 * BitXor(a \div 2, b \div 2)

RECURSIVE BitAnd(_, _)
BitAnd(a, b) ==
  IF a = 0 \/ b = 0 THEN 0
  ELSE ((a % 2) * (b % 2)) + 2 * BitAnd(a \div 2, b \div 2)

\* xor / bitand of two bytes, tabulated
XorTable == [a \in 0..255 |-> [b \in 0..255 |-> BitXor(a, b)]]

AndTable == [a \in 0..255 |-> [b \in 0..255 |-> BitAnd(a, b)]]

Xor16(a, b) ==
  XorTable[a \div 256][b \div 256] * 256 + XorTable[a % 256][b % 256]

And16(a, b) ==
  AndTable[a \div 256][b \div 256] * 256 + AndTable[a % 256][b % 256]

\* operator xor on state_item_t
WXor(x, y) == <<Xor16(x[1], y[1]), Xor16(x[2], y[2])>>

\* operator bitand on state_item_t
WAnd(x, y) == <<And16(x[1], y[1]), And16(x[2], y[2])>>

\* operator ~ on state_item_t
WNot(x) == <<(Half - 1) - x[1], (Half - 1) - x[2]>>

\* operator + on state_item_t: wraps at the word width
WAdd(x, y) ==
  LET lo == x[2] + y[2]
      hi == x[1] + y[1] + (lo \div Half)
  IN  <<hi % Half, lo % Half>>

\* std::rotr(x, n), 0 <= n < 32
Rotr(x, n) ==
  LET s == n % 32
      y == IF s >= 16 THEN <<x[2], x[1]>> ELSE x
      k == s % 16
  IN  <<(y[1] \div Pow2(k)) + (y[2] % Pow2(k)) * Pow2(16 - k),
        (y[2] \div Pow2(k)) + (y[1] % Pow2(k)) * Pow2(16 - k)>>

\* x >> n on state_item_t, 0 <= n < 32
Shr(x, n) ==
  IF n >= 16
    THEN <<0, x[1] \div Pow2(n - 16)>>
    ELSE <<x[1] \div Pow2(n),
           (x[2] \div Pow2(n)) + (x[1] % Pow2(n)) * Pow2(16 - n)>>

\* ------------------------------------------------------------ config table
sha256_constants ==
  << <<17034, 12184>>, <<28983, 17553>>, <<46528, 64463>>, <<59829, 56229>>,
     <<14678, 49755>>, <<23025, 4593>>, <<37439, 33444>>, <<43804, 24277>>,
     <<55303, 43672>>, <<4739, 23297>>, <<9265, 34238>>, <<21772, 32195>>,
     <<29374, 23924>>, <<32990, 45566>>, <<39900, 1703>>, <<49563, 61812>>,
     <<58523, 27073>>, <<61374, 18310>>, <<4033, 40390>>, <<9228, 41420>>,
     <<11753, 11375>>, <<19060, 33962>>, <<23728, 43484>>, <<30457, 35034>>,
     <<38974, 20818>>, <<43057, 50797>>, <<45059, 10184>>, <<48985, 32711>>,
     <<50912, 3059>>, <<54695, 37191>>, <<1738, 25425>>, <<5161, 10599>>,
     <<10167, 2693>>, <<11803, 8504>>, <<19756, 28156>>, <<21304, 3347>>,
     <<25866, 29524>>, <<30314, 2747>>, <<33218, 51502>>, <<37490, 11397>>,
     <<41663, 59553>>, <<43034, 26187>>, <<49739, 35696>>, <<51052, 20899>>,
     <<53650, 59417>>, <<54937, 1572>>, <<62478, 13701>>, <<4202, 41072>>,
     <<6564, 49430>>, <<7735, 27656>>, <<10056, 30540>>, <<13488, 48309>>,
     <<14620, 3251>>, <<20184, 43594>>, <<23452, 51791>>, <<26670, 28659>>,
     <<29839, 33518>>, <<30885, 25455>>, <<33992, 30740>>, <<36039, 520>>,
     <<37054, 65530>>, <<42064, 27883>>, <<48889, 41975>>, <<50801, 30962>> >>
sha256_initial_values ==
  << <<27145, 58983>>, <<47975, 44677>>, <<15470, 62322>>, <<42319, 62778>>,
     <<20750, 21119>>, <<39685, 26764>>, <<8067, 55723>>, <<23520, 52505>> >>
sha224_initial_values ==
  << <<49413, 40664>>, <<13948, 54535>>, <<12400, 56599>>, <<63246, 22841>>,
     <<65472, 2865>>, <<26712, 5393>>, <<25849, 36775>>, <<48890, 20388>> >>

sha256_config ==
  [ name |-> "sha256", word_size |-> 4, block_bits |-> 512,
    digest_length |-> 32, values_for_output |-> 8, rounds_number |-> 64,
    length_size_bits |-> 64, length_bytes |-> 8,
    initial_values |-> sha256_initial_values,
    constants |-> sha256_constants,
    staging_constants |-> <<7, 18, 3, 17, 19, 10>>,
    compress_constants |-> <<6, 11, 25, 2, 13, 22>> ]

sha224_config ==
  [ name |-> "sha224", word_size |-> 4, block_bits |-> 512,
    digest_length |-> 28, values_for_output |-> 7, rounds_number |-> 64,
    length_size_bits |-> 64, length_bytes |-> 8,
    initial_values |-> sha224_initial_values,
    constants |-> sha256_constants,
    staging_constants |-> <<7, 18, 3, 17, 19, 10>>,
    compress_constants |-> <<6, 11, 25, 2, 13, 22>> ]

Configs == {sha256_config, sha224_config}

block_size_bytes(cfg) == cfg.block_bits \div 8

staging_size(cfg) == Len(cfg.constants)

\* ---------------------------------------------------------- byte/word codec
\* value >> n for a length_t value; the model's lengths stay below 2^31
LenShr(value, n) == IF n >= 31 THEN 0 ELSE value \div Pow2(n)

\* unwrap_bigendian_length writing the least significant byte first
unwrap_littleendian_length(value, bytes) ==
  [Idx \in 1..bytes |-> LenShr(value, 8 * (Idx - 1)) % 256]

\* unwrap_bigendian_number<length_t>::operator= : the bytes written to ref
unwrap_bigendian_length(value, bytes) ==
  [Idx \in 1..bytes |->
     LenShr(value, ((bytes * 8) - 8) - 8 * (Idx - 1)) % 256]

\* unwrap_bigendian_number writing the least significant byte first
unwrap_littleendian_number(value) ==
  [Idx \in 1..4 |-> LET sh == Shr(value, 8 * (Idx - 1)) IN sh[2] % 256]

\* unwrap_bigendian_number<state_item_t>::operator= : the bytes written to ref
unwrap_bigendian_number(value) ==
  [Idx \in 1..4 |->
     LET sh == Shr(value, (32 - 8) - 8 * (Idx - 1)) IN sh[2] % 256]

\* cast_from_bytes taking in[0] as the least significant byte
cast_from_bytes_littleendian(in) ==
  <<in[4] * 256 + in[3], in[2] * 256 + in[1]>>

\* cast_from_bytes<staging_item_t>(in)
cast_from_bytes(in) ==
  <<in[1] * 256 + in[2], in[3] * 256 + in[4]>>

\* a 64-bit value is held as four 16-bit quarters, most significant first;
\* value >> n for n a multiple of 8, cut to its low byte by static_cast<std::byte>
Shr64Byte(value, n) ==
  LET q == value[4 - (n \div 16)]
  IN  IF n % 16 = 0 THEN q % 256 ELSE q \div 256

\* unwrap_bigendian_number<uint64_t>::operator= with the shift counted from
\* a width of 32 bits: the upper four bytes are written from a shift below 0
unwrap_bigendian_number64_narrow(value) ==
  [Idx \in 1..8 |->
     IF (32 - 8) - 8 * (Idx - 1) >= 0
       THEN Shr64Byte(value, (32 - 8) - 8 * (Idx - 1)) ELSE 0]

\* unwrap_bigendian_number<uint64_t>::operator= : the bytes written to ref
unwrap_bigendian_number64(value) ==
  [Idx \in 1..8 |-> Shr64Byte(value, (64 - 8) - 8 * (Idx - 1))]

\* cast_from_bytes<uint64_t>(in): byte Idx shifted left by (8 - 1 - Idx) * 8,
\* the eight of them or-ed
cast_from_bytes64(in) ==
  [q \in 1..4 |-> in[2 * q - 1] * 256 + in[2 * q]]

\* ------------------------------------------------------- message scheduler
\* staging_step taking s0 from w[i - 16] instead of w[i - 15]
staging_step_s0_off_by_one(cfg, i, w) ==
  LET c  == cfg.staging_constants
      s0 == WXor(WXor(Rotr(w[(i - 16) + 1], c[1]), Rotr(w[(i - 16) + 1], c[2])),
                 Shr(w[(i - 16) + 1], c[3]))
      s1 == WXor(WXor(Rotr(w[(i - 2) + 1], c[4]), Rotr(w[(i - 2) + 1], c[5])),
                 Shr(w[(i - 2) + 1], c[6]))
  IN  Append(w, WAdd(WAdd(WAdd(w[(i - 16) + 1], s0), w[(i - 7) + 1]), s1))

\* the body of the second loop of build_staging: w with w[i] appended
staging_step(cfg, i, w) ==
  LET c  == cfg.staging_constants
      s0 == WXor(WXor(Rotr(w[(i - 15) + 1], c[1]), Rotr(w[(i - 15) + 1], c[2])),
                 Shr(w[(i - 15) + 1], c[3]))
      s1 == WXor(WXor(Rotr(w[(i - 2) + 1], c[4]), Rotr(w[(i - 2) + 1], c[5])),
                 Shr(w[(i - 2) + 1], c[6]))
  IN  Append(w, WAdd(WAdd(WAdd(w[(i - 16) + 1], s0), w[(i - 7) + 1]), s1))

\* the second loop of build_staging for i = lo .. hi-1
RECURSIVE staging_rest(_, _, _, _)
staging_rest(cfg, lo, hi, w) ==
  IF lo = hi THEN w
  ELSE IF hi - lo = 1 THEN staging_step(cfg, lo, w)
  ELSE LET mid  == (lo + hi) \div 2
           left == staging_rest(cfg, lo, mid, w)
       IN  IF Len(left) = 0 THEN left ELSE staging_rest(cfg, mid, hi, left)

\* the indices of w read by the body of the second loop of build_staging
staging_step_reads(i) == {i - 16, i - 15, i - 7, i - 2}

\* the positions of chunk read by the first loop of build_staging
staging_reads(cfg) ==
  UNION { ((i - 1) * cfg.word_size + 1)..(i * cfg.word_size) :
            i \in 1..(block_size_bytes(cfg) \div cfg.word_size) }

\* build_staging would read a block position outside wr
reads_unwritten(cfg, wr) == ~(staging_reads(cfg) \subseteq wr)

build_staging(cfg, chunk) ==
  LET first_part_size == block_size_bytes(cfg) \div cfg.word_size
      first == [i \in 1..first_part_size |->
                  cast_from_bytes(SubSeq(chunk, (i - 1) * cfg.word_size + 1,
                                                i * cfg.word_size))]
  IN  staging_rest(cfg, first_part_size, staging_size(cfg), first)

\* -------------------------------------------------------- compression round
\* the body of the loop of rounds: the working variables after round i
round_step(cfg, w, i, wvar) ==
    LET k  == cfg.compress_constants
        a  == wvar[1]
        b  == wvar[2]
        c  == wvar[3]
        d  == wvar[4]
        e  == wvar[5]
        f  == wvar[6]
        g  == wvar[7]
        h  == wvar[8]
        S1 == WXor(WXor(Rotr(e, k[1]), Rotr(e, k[2])), Rotr(e, k[3]))
        choice == WXor(WAnd(e, f), WAnd(WNot(e), g))
        temp1 == WAdd(WAdd(WAdd(WAdd(h, S1), choice), cfg.constants[i + 1]), w[i + 1])
        S0 == WXor(WXor(Rotr(a, k[4]), Rotr(a, k[5])), Rotr(a, k[6]))
        majority == WXor(WXor(WAnd(a, b), WAnd(a, c)), WAnd(b, c))
        temp2 == WAdd(S0, majority)
    IN  <<WAdd(temp1, temp2), a, b, c, WAdd(d, temp1), e, f, g>>

\* the loop of rounds for i = lo .. hi-1
RECURSIVE round_steps(_, _, _, _, _)
round_steps(cfg, w, lo, hi, wvar) ==
  IF lo = hi THEN wvar
  ELSE IF hi - lo = 1 THEN round_step(cfg, w, lo, wvar)
  ELSE LET mid  == (lo + hi) \div 2
           left == round_steps(cfg, w, lo, mid, wvar)
       IN  IF Len(left) = 0 THEN left ELSE round_steps(cfg, w, mid, hi, left)

\* rounds storing the working variables in place of adding them
rounds_replace(cfg, w, state) ==
  LET wvar == round_steps(cfg, w, 0, cfg.rounds_number, state)
  IN  [i \in 1..Len(state) |-> wvar[i]]

\* rounds: the loop on a copy of state, then state[i] += wvar[i]
rounds(cfg, w, state) ==
  LET wvar == round_steps(cfg, w, 0, cfg.rounds_number, state)
  IN  [i \in 1..Len(state) |-> WAdd(state[i], wvar[i])]

\* "we have block!": build_staging followed by rounds
process_block(cfg, blk, state) == rounds(cfg, build_staging(cfg, blk), state)


\* ---------------------------------------------------------- hasher state
VARIABLES
  config,        \* the Config the hasher is instantiated with
  hash,          \* state_value_t hash
  total_length,  \* length_t total_length
  block,         \* block_value_t block
  block_used,    \* unsigned block_used
  digest,        \* the destination buffer of the last final call
  input,         \* history: all bytes passed to update so far, in order
  compressed,    \* history: the blocks given to build_staging + rounds, in order
  updates,       \* history: number of update calls
  finals,        \* history: number of final calls
  late,          \* history: number of calls made after the first final
  last,          \* history: the last call: its kind, its input length n,
                 \* block_used at its entry (u), the passes of the update loop
                 \* (iters) and the number of blocks it compressed (blocks)
  faulted,       \* an assert of the code has failed
  written,       \* history: the positions of block written since construction
  uninit_read,   \* history: build_staging has read a never-written block byte
  probe          \* the codec or round function applied on its own: its
                 \* arguments and result (unused by the hasher itself)

vars == <<config, hash, total_length, block, block_used, digest, input,
          compressed, updates, finals, late, last, faulted, written,
          uninit_read, probe>>

Min(a, b) == IF a < b THEN a ELSE b

\* the byte sequence of length n starting with byte seed
Bytes(n, seed) == [i \in 1..n |-> (seed + (i - 1)) % 256]

NoProbe == [fn |-> "none"]

\* internal_hasher(): hash{config.initial_values}, total_length{0}, block_used{0};
\* block is left uninitialized
Constructed ==
  /\ config \in Configs
  /\ hash = config.initial_values
  /\ total_length = 0
  /\ \E g \in GarbageBytes : block = [i \in 1..block_size_bytes(config) |-> g]
  /\ block_used = 0
  /\ digest = <<>>
  /\ input = <<>>
  /\ compressed = <<>>
  /\ updates = 0
  /\ finals = 0
  /\ late = 0
  /\ last = [op |-> "none", n |-> 0, u |-> 0, iters |-> 0, blocks |-> 0]
  /\ faulted = FALSE
  /\ written = {}
  /\ uninit_read = FALSE

Init == Constructed /\ probe = NoProbe

\* ------------------------------------------------------ buffer accumulator
\* copy_step copying to the start of the block instead of behind the
\* buffered bytes
copy_step_at_front(cfg, st, in) ==
  LET free    == block_size_bytes(cfg) - st.block_used
      to_copy == Min(Len(in), free)
  IN  [free |-> free, to_copy |-> to_copy,
       block |-> [i \in 1..block_size_bytes(cfg) |->
                    IF i <= to_copy THEN in[i] ELSE st.block[i]],
       written |-> st.written \cup (1..to_copy),
       total_length |-> st.total_length + to_copy]

\* copy_step counting the whole remaining input instead of the copied bytes
copy_step_counts_input(cfg, st, in) ==
  LET free    == block_size_bytes(cfg) - st.block_used
      to_copy == Min(Len(in), free)
  IN  [free |-> free, to_copy |-> to_copy,
       block |-> [i \in 1..block_size_bytes(cfg) |->
                    IF st.block_used < i /\ i <= st.block_used + to_copy
                      THEN in[i - st.block_used] ELSE st.block[i]],
       written |-> st.written \cup ((st.block_used + 1)..(st.block_used + to_copy)),
       total_length |-> st.total_length + Len(in)]

\* copy_step counting the free space of the block instead of the bytes copied
copy_step_counts_free(cfg, st, in) ==
  LET free    == block_size_bytes(cfg) - st.block_used
      to_copy == Min(Len(in), free)
  IN  [free |-> free, to_copy |-> to_copy,
       block |-> [i \in 1..block_size_bytes(cfg) |->
                    IF st.block_used < i /\ i <= st.block_used + to_copy
                      THEN in[i - st.block_used] ELSE st.block[i]],
       written |-> st.written \cup ((st.block_used + 1)..(st.block_used + to_copy)),
       total_length |-> st.total_length + free]

\* one pass of the loop up to the test: copies the first to_copy bytes of in
\* behind the buffered bytes and counts them; c.free is
\* remaining_free_space.size(), c.to_copy is to_copy.size(), c.written the
\* positions of block written so far
copy_step(cfg, st, in) ==
  LET free    == block_size_bytes(cfg) - st.block_used
      to_copy == Min(Len(in), free)
  IN  [free |-> free, to_copy |-> to_copy,
       block |-> [i \in 1..block_size_bytes(cfg) |->
                    IF st.block_used < i /\ i <= st.block_used + to_copy
                      THEN in[i - st.block_used] ELSE st.block[i]],
       written |-> st.written \cup ((st.block_used + 1)..(st.block_used + to_copy)),
       total_length |-> st.total_length + to_copy]

\* not_full that also returns when the input is used up, leaving a full block
\* for the next call
not_full_or_input_done(c, in) == c.to_copy # c.free \/ c.to_copy = Len(in)

\* it != remaining_free_space.end(): the copy did not fill the block
not_full(c, in) == c.to_copy # c.free

\* flush_block without block_used = 0
flush_block_keeps_used(cfg, st, c) ==
  [hash         |-> process_block(cfg, c.block, st.hash),
   total_length |-> c.total_length,
   block        |-> c.block,
   block_used   |-> st.block_used,
   compressed   |-> Append(st.compressed, c.block),
   written      |-> c.written,
   uninit_read  |-> st.uninit_read \/ reads_unwritten(cfg, c.written),
   iters        |-> st.iters + 1]

\* flush_block compressing the block as it was before the copy
flush_block_stale(cfg, st, c) ==
  [hash         |-> process_block(cfg, st.block, st.hash),
   total_length |-> c.total_length,
   block        |-> c.block,
   block_used   |-> 0,
   compressed   |-> Append(st.compressed, st.block),
   written      |-> c.written,
   uninit_read  |-> st.uninit_read \/ reads_unwritten(cfg, c.written),
   iters        |-> st.iters + 1]

\* the else branch and "we have block!": block_used = 0, build_staging, rounds
flush_block(cfg, st, c) ==
  [hash         |-> process_block(cfg, c.block, st.hash),
   total_length |-> c.total_length,
   block        |-> c.block,
   block_used   |-> 0,
   compressed   |-> Append(st.compressed, c.block),
   written      |-> c.written,
   uninit_read  |-> st.uninit_read \/ reads_unwritten(cfg, c.written),
   iters        |-> st.iters + 1]

\* the for (;;) loop of update_to_buffer_and_process; st carries the fields
\* the loop changes, the history of compressed blocks and the pass count
RECURSIVE update_loop(_, _, _)

\* update_loop with block_used = to_copy.size() for block_used += to_copy.size()
update_loop_assigns_used(cfg, st, in) ==
  LET c == copy_step(cfg, st, in)
  IN  IF not_full(c, in)
        THEN [st EXCEPT !.block = c.block,
                        !.total_length = c.total_length,
                        !.block_used = c.to_copy,
                        !.written = c.written,
                        !.iters = st.iters + 1]
        ELSE update_loop(cfg, flush_block(cfg, st, c),
                         SubSeq(in, c.to_copy + 1, Len(in)))

update_loop(cfg, st, in) ==
  LET c == copy_step(cfg, st, in)
  IN  IF not_full(c, in)
        THEN [st EXCEPT !.block = c.block, !.total_length = c.total_length,
                        !.block_used = st.block_used + c.to_copy,
                        !.written = c.written,
                        !.iters = st.iters + 1]
        ELSE update_loop(cfg, flush_block(cfg, st, c),
                         SubSeq(in, c.to_copy + 1, Len(in)))

update_to_buffer_and_process(cfg, h, tl, blk, bu, log, wr, in) ==
  update_loop(cfg, [hash |-> h, total_length |-> tl, block |-> blk,
                    block_used |-> bu, compressed |-> log, written |-> wr,
                    uninit_read |-> FALSE, iters |-> 0], in)

\* ---------------------------------------------------------------- finalizer
\* pad_block without the std::fill
pad_block_no_fill(cfg, st) ==
  [block   |-> [i \in 1..block_size_bytes(cfg) |->
                  IF i = st.block_used + 1 THEN 128 ELSE st.block[i]],
   written |-> st.written \cup {st.block_used + 1}]

\* pad_block with the std::fill stopping where the length field starts
pad_block_fill_to_length(cfg, st) ==
  [block   |-> [i \in 1..block_size_bytes(cfg) |->
                  IF i <= st.block_used THEN st.block[i]
                  ELSE IF i = st.block_used + 1 THEN 128
                  ELSE IF i <= block_size_bytes(cfg) - cfg.length_bytes THEN 0
                  ELSE st.block[i]],
   written |-> st.written
                 \cup ((st.block_used + 1)..
                         (IF st.block_used + 1 > block_size_bytes(cfg) - cfg.length_bytes
                            THEN st.block_used + 1
                            ELSE block_size_bytes(cfg) - cfg.length_bytes))]

\* the block after *it++ = 0x80 and std::fill(it, end, 0), and the positions
\* written so far
pad_block(cfg, st) ==
  [block   |-> [i \in 1..block_size_bytes(cfg) |->
                  IF i <= st.block_used THEN st.block[i]
                  ELSE IF i = st.block_used + 1 THEN 128 ELSE 0],
   written |-> st.written \cup ((st.block_used + 1)..block_size_bytes(cfg))]

\* needs_extra_block with <= for <
needs_extra_block_le(cfg, free) == free <= 1 + (cfg.length_size_bits \div 8)

\* free_space.size() < 1 + length_size_bits / 8
needs_extra_block(cfg, free) == free < 1 + (cfg.length_size_bits \div 8)

\* finalize_buffer counting the padding bytes as input
finalize_buffer_counts_padding(cfg, st) ==
  LET B       == block_size_bytes(cfg)
      pad     == pad_block(cfg, st)
      padded  == pad.block
      extra   == needs_extra_block(cfg, B - st.block_used)
      hash1   == IF extra THEN process_block(cfg, padded, st.hash) ELSE st.hash
      log1    == IF extra THEN Append(st.compressed, padded) ELSE st.compressed
      ur1     == st.uninit_read \/ (extra /\ reads_unwritten(cfg, pad.written))
      block1  == IF extra THEN [i \in 1..B |-> 0] ELSE padded
      wr1     == IF extra THEN 1..B ELSE pad.written
      len     == unwrap_bigendian_length(st.total_length * 8, cfg.length_bytes)
      block2  == [i \in 1..B |->
                    IF i > B - cfg.length_bytes
                      THEN len[i - (B - cfg.length_bytes)] ELSE block1[i]]
      wr2     == wr1 \cup ((B - cfg.length_bytes + 1)..B)
  IN  [hash         |-> process_block(cfg, block2, hash1),
       total_length |-> st.total_length + (B - st.block_used),
       block        |-> block2,
       block_used   |-> 0,
       compressed   |-> Append(log1, block2),
       written      |-> wr2,
       uninit_read  |-> ur1 \/ reads_unwritten(cfg, wr2),
       iters        |-> 0]

\* finalize_buffer, after its assert; st as in update_loop
finalize_buffer(cfg, st) ==
  LET B       == block_size_bytes(cfg)
      pad     == pad_block(cfg, st)
      padded  == pad.block
      extra   == needs_extra_block(cfg, B - st.block_used)
      hash1   == IF extra THEN process_block(cfg, padded, st.hash) ELSE st.hash
      log1    == IF extra THEN Append(st.compressed, padded) ELSE st.compressed
      ur1     == st.uninit_read \/ (extra /\ reads_unwritten(cfg, pad.written))
      block1  == IF extra THEN [i \in 1..B |-> 0] ELSE padded
      wr1     == IF extra THEN 1..B ELSE pad.written
      len     == unwrap_bigendian_length(st.total_length * 8, cfg.length_bytes)
      block2  == [i \in 1..B |->
                    IF i > B - cfg.length_bytes
                      THEN len[i - (B - cfg.length_bytes)] ELSE block1[i]]
      wr2     == wr1 \cup ((B - cfg.length_bytes + 1)..B)
  IN  [hash         |-> process_block(cfg, block2, hash1),
       total_length |-> st.total_length,
       block        |-> block2,
       block_used   |-> st.block_used,
       compressed   |-> Append(log1, block2),
       written      |-> wr2,
       uninit_read  |-> ur1 \/ reads_unwritten(cfg, wr2),
       iters        |-> 0]

\* ------------------------------------------------------------ result writer
\* write_result_into(out): the contents of out afterwards
write_result_into(cfg, h, out) ==
  [p \in 1..Len(out) |->
     LET i == (p - 1) \div cfg.word_size
     IN  IF i < cfg.values_for_output
           THEN unwrap_bigendian_number(h[i + 1])[((p - 1) % cfg.word_size) + 1]
           ELSE out[p]]

\* --------------------------------------------------------------- operations
CallAllowed == ~faulted /\ (finals > 0 => late < MaxLate)

\* hasher::update(input)
Update(n, seed) ==
  /\ CallAllowed
  /\ updates < MaxUpdates
  /\ Len(input) + n <= MaxTotal
  /\ \E r \in {update_to_buffer_and_process(config, hash, total_length, block,
                   block_used, compressed, written, Bytes(n, seed))} :
         /\ hash' = r.hash
         /\ total_length' = r.total_length
         /\ block' = r.block
         /\ block_used' = r.block_used
         /\ compressed' = r.compressed
         /\ written' = r.written
         /\ uninit_read' = (uninit_read \/ r.uninit_read)
         /\ input' = input \o Bytes(n, seed)
         /\ last' = [op |-> "update", n |-> n, u |-> block_used, iters |-> r.iters,
                    blocks |-> Len(r.compressed) - Len(compressed)]
  /\ updates' = updates + 1
  /\ late' = IF finals > 0 THEN late + 1 ELSE late
  /\ UNCHANGED <<config, digest, finals, faulted, probe>>

\* hasher::final(digest): finalize_buffer, then write_result_into
Final(g) ==
  /\ CallAllowed
  /\ IF block_used < Len(block)
       THEN \E r \in {finalize_buffer(config,
                       [hash |-> hash, total_length |-> total_length,
                        block |-> block, block_used |-> block_used,
                        compressed |-> compressed, written |-> written,
                        uninit_read |-> uninit_read, iters |-> 0])} :
                /\ hash' = r.hash
                /\ total_length' = r.total_length
                /\ block' = r.block
                /\ block_used' = r.block_used
                /\ compressed' = r.compressed
                /\ written' = r.written
                /\ uninit_read' = r.uninit_read
                /\ digest' = write_result_into(config, r.hash,
                                               [i \in 1..config.digest_length |-> g])
                /\ last' = [op |-> "final", n |-> 0, u |-> block_used, iters |-> 0,
                           blocks |-> Len(r.compressed) - Len(compressed)]
                /\ faulted' = FALSE
       ELSE /\ faulted' = TRUE
            /\ last' = [op |-> "final", n |-> 0, u |-> block_used, iters |-> 0,
                       blocks |-> 0]
            /\ UNCHANGED <<hash, total_length, block, block_used, compressed, digest,
                           written, uninit_read>>
  /\ finals' = finals + 1
  /\ late' = IF finals > 0 THEN late + 1 ELSE late
  /\ UNCHANGED <<config, input, updates, probe>>

Next ==
  \/ \E n \in ChunkLens, seed \in ByteSeeds : Update(n, seed)
  \/ \E g \in GarbageBytes : Final(g)

\* hasher::size()
size == total_length

\* ---------------------------------------------------- the codec on its own
\* the 16-bit parts the encoded values are made of
CodecParts == {0, 1, 255, 256, 32768, 65535}

\* the bytes the decoded windows are made of
CodecBytes == {0, 1, 128, 255}

CodecValues32 == [1..2 -> CodecParts]

CodecValues64 == [1..4 -> {0, 255, 65535}]

CodecWindows32 == [1..4 -> CodecBytes]

CodecWindows64 == [1..8 -> {0, 255}]

CodecInputs ==
  [fn : {"value"}, width : {4}, value : CodecValues32]
    \cup [fn : {"value"}, width : {8}, value : CodecValues64]
    \cup [fn : {"window"}, width : {4}, window : CodecWindows32]
    \cup [fn : {"window"}, width : {8}, window : CodecWindows64]

InitCodec == Constructed /\ probe \in CodecInputs

\* unwrap_bigendian_number{ref} = value
Encode ==
  /\ probe.fn = "value"
  /\ probe' = [fn |-> "encoded", width |-> probe.width, value |-> probe.value,
               ref |-> IF probe.width = 4
                         THEN unwrap_bigendian_number(probe.value)
                         ELSE unwrap_bigendian_number64(probe.value)]
  /\ UNCHANGED <<config, hash, total_length, block, block_used, digest, input,
                 compressed, updates, finals, late, last, faulted, written,
                 uninit_read>>

\* cast_from_bytes<T>(ref) on the bytes just written
DecodeEncoded ==
  /\ probe.fn = "encoded"
  /\ probe' = [fn |-> "encoded_decoded", width |-> probe.width,
               value |-> probe.value, ref |-> probe.ref,
               result |-> IF probe.width = 4
                            THEN cast_from_bytes(probe.ref)
                            ELSE cast_from_bytes64(probe.ref)]
  /\ UNCHANGED <<config, hash, total_length, block, block_used, digest, input,
                 compressed, updates, finals, late, last, faulted, written,
                 uninit_read>>

\* cast_from_bytes<T>(window)
Decode ==
  /\ probe.fn = "window"
  /\ probe' = [fn |-> "decoded", width |-> probe.width, window |-> probe.window,
               value |-> IF probe.width = 4
                           THEN cast_from_bytes(probe.window)
                           ELSE cast_from_bytes64(probe.window)]
  /\ UNCHANGED <<config, hash, total_length, block, block_used, digest, input,
                 compressed, updates, finals, late, last, faulted, written,
                 uninit_read>>

\* unwrap_bigendian_number{ref} = value on the value just decoded
EncodeDecoded ==
  /\ probe.fn = "decoded"
  /\ probe' = [fn |-> "decoded_encoded", width |-> probe.width,
               window |-> probe.window, value |-> probe.value,
               ref |-> IF probe.width = 4
                         THEN unwrap_bigendian_number(probe.value)
                         ELSE unwrap_bigendian_number64(probe.value)]
  /\ UNCHANGED <<config, hash, total_length, block, block_used, digest, input,
                 compressed, updates, finals, late, last, faulted, written,
                 uninit_read>>

NextCodec == Encode \/ DecodeEncoded \/ Decode \/ EncodeDecoded

SpecCodec == InitCodec /\ [][NextCodec]_vars

\* --------------------------------------------------- rounds, step by step
\* the states rounds is entered with
RoundsStates ==
  {sha256_initial_values, sha224_initial_values,
   [j \in 1..8 |-> <<65535, 65535>>], [j \in 1..8 |-> <<0, 0>>]}

\* the schedules rounds is entered with
RoundsSchedules ==
  {build_staging(sha256_config, Bytes(block_size_bytes(sha256_config), seed)) :
     seed \in ByteSeeds}
    \cup {[i \in 1..staging_size(sha256_config) |-> <<65535, 65535>>]}

\* auto wvar = state_value_t(state)
InitRounds ==
  /\ Constructed
  /\ \E state \in RoundsStates, w \in RoundsSchedules :
       probe = [fn |-> "rounds", i |-> 0, state |-> state, w |-> w,
                wvar |-> state]

\* one pass of the loop of rounds
RoundStep ==
  /\ probe.fn = "rounds"
  /\ probe.i # config.rounds_number
  /\ probe' = [probe EXCEPT !.i = probe.i + 1,
                            !.wvar = round_step(config, probe.w, probe.i, probe.wvar)]
  /\ UNCHANGED <<config, hash, total_length, block, block_used, digest, input,
                 compressed, updates, finals, late, last, faulted, written,
                 uninit_read>>

\* the loop has ended: state is what rounds leaves in it
StoreBack ==
  /\ probe.fn = "rounds"
  /\ probe.i = config.rounds_number
  /\ probe' = [fn |-> "rounds_done", i |-> probe.i, old |-> probe.state,
               state |-> rounds(config, probe.w, probe.state),
               w |-> probe.w, wvar |-> probe.wvar]
  /\ UNCHANGED <<config, hash, total_length, block, block_used, digest, input,
                 compressed, updates, finals, late, last, faulted, written,
                 uninit_read>>

NextRounds == RoundStep \/ StoreBack

SpecRounds == InitRounds /\ [][NextRounds]_vars

Spec == Init /\ [][Next]_vars

\* ------------------------------------------------------------------ claims
\* the blocks compressed by the last call, in order
LastBlocks == SubSeq(compressed, Len(compressed) - last.blocks + 1, Len(compressed))

\* a final call that completed and is the only final so far, after updates only
FirstFinalDone == last.op = "final" /\ finals = 1 /\ late = 0 /\ ~faulted

\* the value of a byte sequence read most-significant byte first
RECURSIVE BigEndianDigits(_)
BigEndianDigits(bytes) ==
  IF bytes = <<>> THEN 0
  ELSE BigEndianDigits(SubSeq(bytes, 1, Len(bytes) - 1)) * 256 + bytes[Len(bytes)]

\* the same for a sequence of any length; -1 stands for the values of 2^24
\* and more, which no length of the model reaches
BigEndianValue(bytes) ==
  IF \E i \in 1..(Len(bytes) - 3) : bytes[i] # 0 THEN -1
  ELSE IF Len(bytes) <= 3 THEN BigEndianDigits(bytes)
  ELSE BigEndianDigits(SubSeq(bytes, Len(bytes) - 2, Len(bytes)))

\* byte j (0 = most significant) of a state word
WordByte(x, j) ==
  IF j = 0 THEN x[1] \div 256
  ELSE IF j = 1 THEN x[1] % 256
  ELSE IF j = 2 THEN x[2] \div 256
  ELSE x[2] % 256

\* the digest of S passed in a single update call to a fresh hasher whose
\* block buffer and destination hold g
SingleUpdateDigest(cfg, S, g) ==
  LET fresh == [i \in 1..block_size_bytes(cfg) |-> g]
      u == update_to_buffer_and_process(cfg, cfg.initial_values, 0, fresh, 0, <<>>, {}, S)
      f == finalize_buffer(cfg, u)
  IN  write_result_into(cfg, f.hash, [i \in 1..cfg.digest_length |-> g])

\* C1: chunking invariance - the digest written by final after any split of
\* the input into update calls equals the digest of the same bytes passed in
\* one update call
C1_ChunkingInvariance ==
  FirstFinalDone =>
    \A g \in GarbageBytes : digest = SingleUpdateDigest(config, input, g)

\* two update calls, one of them spanning two block boundaries, then final
C1_Witness ==
  FirstFinalDone /\ updates = 2 /\ Len(input) = 131 /\ Len(compressed) = 3

\* C2: after any sequence of update calls on a fresh hasher, total_length is
\* the sum of the input lengths
C2_TotalLength == finals = 0 => total_length = Len(input)

C2_Witness ==
  finals = 0 /\ updates = 2 /\ total_length = 120 /\ Len(compressed) = 1

\* C3: block_used < block_size_bytes after construction and after every
\* update call, and the assertion of finalize_buffer never fails
C3_BlockUsedBelowBlockSize ==
  block_used < block_size_bytes(config) /\ ~faulted

\* an update that filled the buffer exactly, then a final that passed its assert
C3_Witness ==
  last.op = "final" /\ ~faulted /\ Len(input) = 64 /\ block_used = 0

\* C4: finalize compresses two blocks when fewer than 1 + length_size_bits/8
\* bytes are free, else one; in the two-block case the second block is zero
\* outside the length field
C4_FinalBlockCount ==
  (last.op = "final" /\ ~faulted) =>
    LET B == block_size_bytes(config)
        L == config.length_size_bits \div 8
    IN  /\ last.blocks = (IF B - last.u < 1 + L THEN 2 ELSE 1)
        /\ (B - last.u = L => last.blocks = 2)
        /\ last.blocks = 2 =>
             \A i \in 1..(B - L) : LastBlocks[2][i] = 0

\* exactly length_size_bits/8 bytes free: the extra block
C4_Witness ==
  FirstFinalDone /\ last.u = 56 /\ last.blocks = 2 /\ Len(input) = 56

\* C5: the last block compressed by finalize ends with total_length * 8, the
\* bit count of the input, as a big-endian integer of length_size_bits bits
C5_LengthField ==
  (last.op = "final" /\ ~faulted) =>
    LET B == block_size_bytes(config)
        L == config.length_size_bits \div 8
        field == SubSeq(compressed[Len(compressed)], B - L + 1, B)
    IN  /\ Len(field) = L
        /\ BigEndianValue(field) = total_length * 8
        /\ total_length = Len(input)

\* 131 bytes: a bit count of 1048 needs two bytes of the field
C5_Witness ==
  FirstFinalDone /\ total_length = 131 /\ compressed[Len(compressed)][63] = 4
    /\ compressed[Len(compressed)][64] = 24

\* C6: the first block compressed by finalize is the buffered input bytes,
\* then 0x80, then zeros up to the length field (or to the end of the block
\* when the length goes into a second block)
C6_PaddingBlock ==
  FirstFinalDone =>
    LET B  == block_size_bytes(config)
        L  == config.length_size_bits \div 8
        fb == LastBlocks[1]
        zero_end == IF last.blocks = 2 THEN B ELSE B - L
    IN  /\ \A i \in 1..last.u : fb[i] = input[Len(input) - last.u + i]
        /\ fb[last.u + 1] = 128
        /\ \A i \in (last.u + 2)..zero_end : fb[i] = 0

\* the buffer held bytes 4..64 of the first, already compressed block
C6_Witness ==
  FirstFinalDone /\ Len(input) = 67 /\ last.u = 3 /\ input[5] # 0

\* C7: write_result_into fills the destination with the first
\* values_for_output state words, each most-significant byte first
C7_DigestBytes ==
  (last.op = "final" /\ ~faulted) =>
    /\ Len(digest) = config.digest_length
    /\ \A p \in 1..config.digest_length :
         /\ (p - 1) \div config.word_size < config.values_for_output
         /\ digest[p] = WordByte(hash[((p - 1) \div config.word_size) + 1],
                                 (p - 1) % config.word_size)

\* a configuration that emits 7 of the 8 state words
C7_Witness ==
  FirstFinalDone /\ config.values_for_output < Len(hash) /\ Len(digest) = 28
    /\ Len(input) = 3

\* C8: SHA-256 of "abc" is ba7816bf 8f01cfea 414140de 5dae2223 b00361a3
\* 96177a9c b410ff61 f20015ad
C8_AbcDigest ==
  (FirstFinalDone /\ config.name = "sha256" /\ input = <<97, 98, 99>>) =>
    digest = << 186, 120,  22, 191, 143,   1, 207, 234,
                 65,  65,  64, 222,  93, 174,  34,  35,
                176,   3,  97, 163, 150,  23, 122, 156,
                180,  16, 255,  97, 242,   0,  21, 173 >>

C8_Witness ==
  FirstFinalDone /\ config.name = "sha256" /\ input = <<97, 98, 99>>
    /\ Len(digest) = 32

\* C9: a call of update or final made after final faults instead of
\* completing
C9_CallAfterFinalFaults == (finals >= 1 /\ late >= 1) => faulted

\* C10: the loop of update_to_buffer_and_process returns after
\* floor((block_used + n) / block_size_bytes) + 1 passes
C10_UpdateLoopPasses ==
  last.op = "update" =>
    last.iters = ((last.u + last.n) \div block_size_bytes(config)) + 1

\* the input ends exactly at a block boundary, two blocks later
C10_Witness ==
  last.op = "update" /\ last.u = 0 /\ last.n = 128 /\ last.iters = 3

\* C13: before final, an update call with n input bytes entered with
\* block_used = u compresses floor((u + n) / block_size_bytes) blocks, and
\* the k-th block compressed since construction (k from 0) is bytes
\* k*block_size_bytes .. (k+1)*block_size_bytes - 1 of the concatenation of
\* all inputs
C13_BlocksCompressedInOrder ==
  finals = 0 =>
    LET B == block_size_bytes(config)
    IN  /\ last.op = "update" => last.blocks = (last.u + last.n) \div B
        /\ Len(compressed) * B <= Len(input)
        /\ \A k \in 0..(Len(compressed) - 1) :
             compressed[k + 1] = SubSeq(input, k * B + 1, (k + 1) * B)

\* a call entered with 3 buffered bytes that compresses two blocks, the
\* first made of bytes of both calls
C13_Witness ==
  /\ finals = 0
  /\ last.op = "update" /\ last.u = 3 /\ last.n = 128 /\ last.blocks = 2
  /\ Len(compressed) = 2

\* C16: after construction and after every update call before final,
\* block_used = total_length mod block_size_bytes, the number of blocks
\* compressed = floor(total_length / block_size_bytes), block[0..block_used-1]
\* holds the last block_used bytes of the input, and a call whose input fills
\* the buffer exactly compresses it in that call and leaves block_used = 0
C16_BufferTracksInput ==
  finals = 0 =>
    LET B == block_size_bytes(config)
    IN  /\ block_used = total_length % B
        /\ Len(compressed) = total_length \div B
        /\ block_used <= Len(input)
        /\ SubSeq(block, 1, block_used)
             = SubSeq(input, Len(input) - block_used + 1, Len(input))
        /\ (last.op = "update" /\ last.n > 0 /\ (last.u + last.n) % B = 0)
             => (block_used = 0 /\ last.blocks >= 1
                 /\ compressed[Len(compressed)]
                      = SubSeq(input, Len(input) - B + 1, Len(input)))

\* 52 buffered bytes, then a call whose 3 bytes stay in the buffer behind them
C16_Witness ==
  /\ finals = 0 /\ last.op = "update" /\ last.u = 52 /\ last.n = 3
  /\ block_used = 55

\* C18: update with an empty byte sequence changes none of hash,
\* total_length, block_used and block and compresses no block, in the state
\* after construction, with bytes buffered, directly after a block flush and
\* after final
C18_EmptyUpdateIsNoOp ==
  [][(updates' = updates + 1 /\ last'.n = 0)
       => /\ UNCHANGED <<hash, total_length, block_used, block, compressed>>
          /\ last'.blocks = 0]_vars

\* an empty update directly after a call that flushed a block
C18_Witness ==
  /\ last.op = "update" /\ last.n = 0 /\ last.u = 0 /\ last.blocks = 0
  /\ updates = 2 /\ finals = 0 /\ Len(compressed) >= 1 /\ block_used = 0

\* C12: every final leaves total_length, block_used and size() as
\* finalize_buffer found them; after the first final hash and block are as
\* finalize_buffer left them: write_result_into changes none of hash,
\* total_length, block, block_used
C12_FinalFrame ==
  [][(finals' = finals + 1 /\ ~faulted')
       => /\ total_length' = total_length
          /\ block_used' = block_used
          /\ size' = size
          /\ finals = 0 =>
             LET r == finalize_buffer(config,
                        [hash |-> hash, total_length |-> total_length,
                         block |-> block, block_used |-> block_used,
                         compressed |-> compressed, written |-> written,
                         uninit_read |-> uninit_read, iters |-> 0])
             IN  /\ hash' = r.hash
                 /\ block' = r.block
                 /\ r.total_length = total_length
                 /\ r.block_used = block_used]_vars

\* a final that padded 56 buffered bytes with 72 bytes in two blocks
C12_Witness ==
  /\ last.op = "final" /\ ~faulted /\ finals = 1
  /\ last.blocks = 2 /\ block_used = 56 /\ size = 56

\* (a + b + c + d) mod 2^32 on words held as two 16-bit halves
Sum4Mod(a, b, c, d) ==
  LET lo == a[2] + b[2] + c[2] + d[2]
      hi == a[1] + b[1] + c[1] + d[1] + (lo \div 65536)
  IN  <<hi % 65536, lo % 65536>>

\* the word made of bytes 4i .. 4i+3 of blk, most significant byte first
BlockWord(blk, i) ==
  <<blk[4 * i + 1] * 256 + blk[4 * i + 2], blk[4 * i + 3] * 256 + blk[4 * i + 4]>>

\* C14: for every block compressed by the last call, build_staging returns
\* staging_size words; the first block_size_bytes / word_size are the consecutive words
\* of the block, most significant byte first; every later one is
\* w[i] = (w[i-16] + s0 + w[i-7] + s1) mod 2^32 with s0, s1 the rotate-xor-
\* shift mixes of w[i-15] and w[i-2] by the six staging_constants
C14_ScheduleExpansion ==
  \A b \in (Len(compressed) - last.blocks + 1)..Len(compressed) :
    LET blk   == compressed[b]
        w     == build_staging(config, blk)
        c     == config.staging_constants
        first == block_size_bytes(config) \div config.word_size
    IN  /\ Len(w) = staging_size(config)
        /\ \A i \in 0..(first - 1) : w[i + 1] = BlockWord(blk, i)
        /\ \A i \in first..(staging_size(config) - 1) :
             LET s0 == WXor(WXor(Rotr(w[i - 15 + 1], c[1]), Rotr(w[i - 15 + 1], c[2])),
                            Shr(w[i - 15 + 1], c[3]))
                 s1 == WXor(WXor(Rotr(w[i - 2 + 1], c[4]), Rotr(w[i - 2 + 1], c[5])),
                            Shr(w[i - 2 + 1], c[6]))
             IN  w[i + 1] = Sum4Mod(w[i - 16 + 1], s0, w[i - 7 + 1], s1)
        /\ \A i \in 1..Len(w) : w[i][1] \in 0..65535 /\ w[i][2] \in 0..65535

\* the schedule of a block of input bytes 255, 0, 1, 2, ..: its first word
\* is 0xff000102, and a word of the expansion has its top bit set
C14_Witness ==
  /\ finals = 0 /\ Len(compressed) >= 1
  /\ LET blk == compressed[Len(compressed)]
         w   == build_staging(config, blk)
     IN  /\ w[1] = <<65280, 258>>
         /\ \E i \in 17..Len(w) : w[i][1] >= 32768

\* C17: build_staging has never read a block byte that was not written since
\* construction, and every schedule entry read by the expansion loop at
\* index i has an index >= 0 and below i, the number of entries written
\* before that pass
C17_NoUninitializedRead ==
  /\ ~uninit_read
  /\ (Len(compressed) >= 1 => written = 1..block_size_bytes(config))
  /\ LET first == block_size_bytes(config) \div config.word_size
     IN  \A i \in first..(staging_size(config) - 1) :
           \A r \in staging_step_reads(i) : 0 <= r /\ r < i

\* a final directly after construction: block held nothing but what
\* finalize_buffer wrote when build_staging read it
C17_Witness ==
  /\ finals = 1 /\ updates = 0 /\ ~faulted
  /\ Len(compressed) = 1 /\ written = 1..block_size_bytes(config)

\* C11: for 32-bit and 64-bit values, cast_from_bytes of the bytes written
\* by unwrap_bigendian_number::operator= is the value encoded, 0 and the
\* maximum included, the bytes written are as many as the width and the
\* first of them is the most significant, and unwrap_bigendian_number of the
\* value decoded from a byte window writes that window again
C11_CodecRoundTrip ==
  /\ probe.fn = "encoded"
       => /\ Len(probe.ref) = probe.width
          /\ probe.ref[1] = probe.value[1] \div 256
          /\ probe.ref[probe.width] = probe.value[probe.width \div 2] % 256
  /\ probe.fn = "encoded_decoded" => probe.result = probe.value
  /\ probe.fn = "decoded"
       => /\ Len(probe.value) = probe.width \div 2
          /\ \A q \in 1..Len(probe.value) : probe.value[q] \in 0..65535
  /\ probe.fn = "decoded_encoded" => probe.ref = probe.window

\* the 64-bit maximum has been encoded and decoded again
C11_Witness ==
  /\ probe.fn = "encoded_decoded" /\ probe.width = 8
  /\ probe.value = <<65535, 65535, 65535, 65535>>
  /\ probe.ref = <<255, 255, 255, 255, 255, 255, 255, 255>>
  /\ probe.result = probe.value

\* (a + b) mod 2^32 on words held as two 16-bit halves
Sum2Mod(a, b) == Sum4Mod(a, b, <<0, 0>>, <<0, 0>>)

\* (a + b + c + d + e) mod 2^32
Sum5Mod(a, b, c, d, e) == Sum2Mod(Sum4Mod(a, b, c, d), e)

\* C15: every round step shifts the working variables
\* h,g,f,e,d,c,b,a = g,f,e,d+temp1,c,b,a,temp1+temp2 with the sums modulo
\* 2^32, and leaves state and the schedule alone; after rounds_number steps
\* rounds sets state[j] = (old state[j] + working[j]) mod 2^32 for each of
\* the 8 words, the schedule still unmodified
C15_RoundsFeedForward ==
  [][/\ (probe.fn = "rounds" /\ probe'.fn = "rounds")
          => LET v      == probe.wvar
                 k      == config.compress_constants
                 S1     == WXor(WXor(Rotr(v[5], k[1]), Rotr(v[5], k[2])), Rotr(v[5], k[3]))
                 choice == WXor(WAnd(v[5], v[6]), WAnd(WNot(v[5]), v[7]))
                 temp1  == Sum5Mod(v[8], S1, choice, config.constants[probe.i + 1],
                                   probe.w[probe.i + 1])
                 S0     == WXor(WXor(Rotr(v[1], k[4]), Rotr(v[1], k[5])), Rotr(v[1], k[6]))
                 majority == WXor(WXor(WAnd(v[1], v[2]), WAnd(v[1], v[3])), WAnd(v[2], v[3]))
                 temp2  == Sum2Mod(S0, majority)
             IN  /\ probe'.i = probe.i + 1
                 /\ probe'.wvar = <<Sum2Mod(temp1, temp2), v[1], v[2], v[3],
                                    Sum2Mod(v[4], temp1), v[5], v[6], v[7]>>
                 /\ probe'.state = probe.state
                 /\ probe'.w = probe.w
     /\ (probe.fn = "rounds" /\ probe'.fn = "rounds_done")
          => /\ probe.i = config.rounds_number
             /\ Len(probe'.state) = 8
             /\ \A j \in 1..8 :
                  probe'.state[j] = Sum2Mod(probe.state[j], probe.wvar[j])
             /\ probe'.w = probe.w
    ]_vars

\* rounds has stored back a state different from the working variables, and
\* one of the eight additions wrapped
C15_Witness ==
  /\ probe.fn = "rounds_done"
  /\ probe.state # probe.wvar
  /\ probe.old = sha256_initial_values
  /\ \E j \in 1..8 : probe.old[j][1] + probe.wvar[j][1] >= 65536

====
